---- MODULE Spec2Model ----
(***************************************************************************)
(* Concrete mix design calculators (streamlit_app.py, streamlit_app3.py). *)
(*                                                                         *)
(* The programs compute with Python ints and Python floats (IEEE-754       *)
(* binary64, round-to-nearest-even).  Numbers are modelled as they are in  *)
(* the program: an int is a TLA+ integer, a float is a record              *)
(*     [s |-> sign, m |-> 53-bit significand, e |-> exponent]               *)
(* of value s * m * 2^e, and every float operation rounds its exact        *)
(* result to the nearest such value, ties to even.  Significands do not    *)
(* fit a model-checker integer, so they are little-endian sequences of     *)
(* 15-bit limbs.                                                           *)
(***************************************************************************)
EXTENDS Integers, Sequences, FiniteSets, TLC

(***************************************************************************)
(* State.                                                                  *)
(*                                                                         *)
(* streamlit_app3.py (the empirical calculator).  Streamlit keeps the two  *)
(* selectboxes' values between runs of the script and runs the script top  *)
(* to bottom on every interaction; the other variables are the script's    *)
(* globals as its last run left them, results and opt_results being the    *)
(* two tables on the page.                                                 *)
(***************************************************************************)
VARIABLES strength, slump, button, base_mix, results, optimized, opt_results

(***************************************************************************)
(* streamlit_app.py (the volumetric calculator): the three widgets' values *)
(* and the script's globals as its last run left them.                     *)
(***************************************************************************)
VARIABLES fc, w_c_ratio, fine_ratio, cement_content, water_content,
          fine_agg_mass, coarse_agg_mass, message

(***************************************************************************)
(* A call of design_mix on arguments of its own (not only those the        *)
(* selectboxes offer): the arguments, where the call stands, its outcome.  *)
(***************************************************************************)
VARIABLES call_strength, call_slump, call_pc, call_result

vars3 == <<strength, slump, button, base_mix, results, optimized, opt_results>>
vars1 == <<fc, w_c_ratio, fine_ratio, cement_content, water_content,
           fine_agg_mass, coarse_agg_mass, message>>
varsCall == <<call_strength, call_slump, call_pc, call_result>>
vars == <<vars3, vars1, varsCall>>

(***************************************************************************)
(* Natural numbers of any size: little-endian limb sequences, no leading   *)
(* (most significant) zero limb; zero is << >>.                            *)
(***************************************************************************)
LimbBits == 15
Base == 2^LimbBits

RECURSIVE BNorm(_)
BNorm(x) ==
    IF x = << >> THEN << >>
    ELSE IF x[Len(x)] = 0 THEN BNorm(SubSeq(x, 1, Len(x) - 1))
    ELSE x

RECURSIVE BFromNat(_)
BFromNat(n) ==
    IF n = 0 THEN << >> ELSE <<n % Base>> \o BFromNat(n \div Base)

\* the value of a limb sequence known to be small enough for an integer
RECURSIVE BToNat(_)
BToNat(x) ==
    IF x = << >> THEN 0 ELSE Head(x) + Base * BToNat(Tail(x))

Limb(x, i) == IF i <= Len(x) THEN x[i] ELSE 0

RECURSIVE BAddC(_, _, _, _)
BAddC(x, y, i, c) ==
    IF i > Len(x) /\ i > Len(y)
    THEN (IF c = 0 THEN << >> ELSE <<c>>)
    ELSE LET t == Limb(x, i) + Limb(y, i) + c
         IN  <<t % Base>> \o BAddC(x, y, i + 1, t \div Base)

BAdd(x, y) == BAddC(x, y, 1, 0)

\* x - y for x >= y
RECURSIVE BSubC(_, _, _, _)
BSubC(x, y, i, b) ==
    IF i > Len(x) THEN << >>
    ELSE LET t == Limb(x, i) - Limb(y, i) - b
         IN  IF t < 0 THEN <<t + Base>> \o BSubC(x, y, i + 1, 1)
                      ELSE <<t>> \o BSubC(x, y, i + 1, 0)

BSub(x, y) == BNorm(BSubC(x, y, 1, 0))

\* -1, 0, 1 as x < y, x = y, x > y
RECURSIVE BCmpAt(_, _, _)
BCmpAt(x, y, i) ==
    IF i = 0 THEN 0
    ELSE IF x[i] < y[i] THEN -1
    ELSE IF x[i] > y[i] THEN 1
    ELSE BCmpAt(x, y, i - 1)

BCmp(x, y) ==
    IF Len(x) < Len(y) THEN -1
    ELSE IF Len(x) > Len(y) THEN 1
    ELSE BCmpAt(x, y, Len(x))

\* x * d + c for one limb d and a carry c
RECURSIVE BMulLimb(_, _, _, _)
BMulLimb(x, d, i, c) ==
    IF i > Len(x) THEN (IF c = 0 THEN << >> ELSE <<c>>)
    ELSE LET t == x[i] * d + c
         IN  <<t % Base>> \o BMulLimb(x, d, i + 1, t \div Base)

BShiftLimbs(x, k) ==
    IF x = << >> THEN << >> ELSE [i \in 1..k |-> 0] \o x

RECURSIVE BMulAt(_, _, _)
BMulAt(x, y, j) ==
    IF j > Len(y) THEN << >>
    ELSE BAdd(BShiftLimbs(BNorm(BMulLimb(x, y[j], 1, 0)), j - 1),
              BMulAt(x, y, j + 1))

BMul(x, y) == BMulAt(x, y, 1)

\* x * 2^n
BShl(x, n) ==
    BShiftLimbs(BNorm(BMulLimb(x, 2^(n % LimbBits), 1, 0)), n \div LimbBits)

\* x \div 2^n
BShr(x, n) ==
    LET k == n \div LimbBits
        r == n % LimbBits
    IN  IF k >= Len(x) THEN << >>
        ELSE BNorm([i \in 1..(Len(x) - k) |->
                      (x[i + k] \div 2^r)
                      + (Limb(x, i + k + 1) % 2^r) * 2^(LimbBits - r)])

\* x % 2^n
BLow(x, n) ==
    LET k == n \div LimbBits
        r == n % LimbBits
    IN  IF k >= Len(x) THEN x
        ELSE BNorm([i \in 1..(k + 1) |->
                      IF i <= k THEN x[i] ELSE x[i] % 2^r])

LimbLen(d) == CHOOSE k \in 0..LimbBits : (d < 2^k) /\ (k = 0 \/ d >= 2^(k - 1))

\* the number of significant bits of x
BBitLen(x) ==
    IF x = << >> THEN 0
    ELSE LimbBits * (Len(x) - 1) + LimbLen(x[Len(x)])

BOdd(x) == x # << >> /\ x[1] % 2 = 1

BOne == <<1>>

(***************************************************************************)
(* Python float: IEEE-754 binary64.  A finite non-zero float is            *)
(* [s |-> 1 or -1, m |-> significand with exactly Prec bits, e |-> Int],   *)
(* of value s * m * 2^e, a multiple of 2^MinExponent below 2^MaxExponent   *)
(* in magnitude (a subnormal has low zero bits in m); zero is FZero, the   *)
(* infinities are Inf(1) and Inf(-1), and NaN is the result of an invalid  *)
(* operation.  Every operation rounds its exact result once, to the        *)
(* nearest float with ties to even, to an infinity when that float would   *)
(* be 2^MaxExponent or more in magnitude.  Zero carries no sign: -0.0 and  *)
(* 0.0 are equal in Python and the scripts never tell them apart.          *)
(***************************************************************************)
Prec == 53
MinExponent == -1074
MaxExponent == 1024

FZero == [s |-> 0, m |-> << >>, e |-> 0]

Inf(s) == [s |-> s, m |-> << >>, e |-> MaxExponent]

NaN == [s |-> 0, m |-> << >>, e |-> MaxExponent]

IsInf(x) == x.m = << >> /\ x.s # 0

IsNaN(x) == x = NaN

Max(a, b) == IF a >= b THEN a ELSE b

\* [s, q, e] with the n bits of q brought to exactly Prec bits (when n is
\* more than Prec the bits dropped are zeros: q is 2^Prec)
FNormal(s, q, e, n) ==
    IF n > Prec THEN [s |-> s, m |-> BShr(q, n - Prec), e |-> e + (n - Prec)]
    ELSE [s |-> s, m |-> BShl(q, Prec - n), e |-> e - (Prec - n)]

\* x, or the infinity of its sign when x is beyond binary64
FBounded(x) == IF x.e + Prec > MaxExponent THEN Inf(x.s) ELSE x

\* the float s * q * 2^e for a q that needs no rounding
FPack(s, q, e) ==
    IF q = << >> THEN FZero ELSE FBounded(FNormal(s, q, e, BBitLen(q)))

\* q, or q + 1 when the bits cut off below q are more than half a unit
\* (c > 0), or half a unit (c = 0) with more behind them or q odd
FNearest(q, c, sticky) ==
    IF c > 0 \/ (c = 0 /\ (sticky \/ BOdd(q))) THEN BAdd(q, BOne) ELSE q

\* the low k > 0 bits of M are cut off and rounded
FCut(s, M, e, sticky, k) ==
    FPack(s, FNearest(BShr(M, k), BCmp(BLow(M, k), BShl(BOne, k - 1)), sticky),
          e + k)

\* the number of low bits that M, of n bits in units of 2^e, has beyond
\* Prec bits and beyond the unit 2^MinExponent of the subnormals
FCutBits(n, e) == Max(n - Prec, MinExponent - e)

FRoundBits(s, M, e, sticky, k) ==
    IF k <= 0 THEN FPack(s, M, e) ELSE FCut(s, M, e, sticky, k)

\* the float nearest to s * (M + f) * 2^e, ties to even, where 0 < f < 1
\* when sticky and f = 0 otherwise
FRound(s, M, e, sticky) ==
    IF M = << >> THEN FZero
    ELSE FRoundBits(s, M, e, sticky, FCutBits(BBitLen(M), e))

Sign(n) == IF n > 0 THEN 1 ELSE IF n < 0 THEN -1 ELSE 0
Abs(n) == IF n < 0 THEN -n ELSE n
Min(a, b) == IF a <= b THEN a ELSE b

ZeroDivisionError == [raised |-> "ZeroDivisionError"]

OverflowError == [raised |-> "OverflowError"]

Raised(r) == "raised" \in DOMAIN r

\* the result x of converting or dividing ints: Python raises OverflowError
\* where the rounded result is beyond binary64, it gives no infinity
FChecked(x) == IF IsInf(x) THEN OverflowError ELSE x

\* the float of the int of sign s and magnitude A (limbs), rounded once
long_to_float(s, A) == FChecked(FRound(s, A, 0, FALSE))

\* int -> float, as Python converts the int operand of a mixed operation
float_of_int(n) == long_to_float(Sign(n), BFromNat(Abs(n)))

float_neg(a) == [a EXCEPT !.s = -a.s]

\* sa * x * 2^e + sb * y * 2^e, rounded; c compares x with y
FAddAligned(sa, x, sb, y, e, c) ==
    FRound(IF sa = sb \/ c > 0 THEN sa ELSE sb,
           IF sa = sb THEN BAdd(x, y)
           ELSE IF c > 0 THEN BSub(x, y) ELSE BSub(y, x),
           e, FALSE)

FAddCompared(sa, x, sb, y, e) == FAddAligned(sa, x, sb, y, e, BCmp(x, y))

\* the significands brought to the common exponent e, then added
FAddAt(a, b, e) ==
    FAddCompared(a.s, BShl(a.m, a.e - e), b.s, BShl(b.m, b.e - e), e)

float_add(a, b) ==
    IF IsNaN(a) \/ IsNaN(b) THEN NaN
    ELSE IF IsInf(a) THEN (IF IsInf(b) /\ b.s # a.s THEN NaN ELSE a)
    ELSE IF IsInf(b) THEN b
    ELSE IF a.s = 0 THEN b
    ELSE IF b.s = 0 THEN a
    ELSE FAddAt(a, b, Min(a.e, b.e))

float_sub(a, b) == float_add(a, float_neg(b))

\* the number of low zero limbs of x # 0, and x without them
RECURSIVE LowZeros(_, _)
LowZeros(x, i) == IF x[i] # 0 THEN i - 1 ELSE LowZeros(x, i + 1)

DropLimbs(x, k) == SubSeq(x, k + 1, Len(x))

\* the exact product, rounded (low zero limbs are left out of the product)
float_mul(a, b) ==
    IF IsNaN(a) \/ IsNaN(b) THEN NaN
    ELSE IF IsInf(a) \/ IsInf(b)
    THEN (IF a.s = 0 \/ b.s = 0 THEN NaN ELSE Inf(a.s * b.s))
    ELSE IF a.s = 0 \/ b.s = 0 THEN FZero
    ELSE LET za == LowZeros(a.m, 1)
             zb == LowZeros(b.m, 1)
         IN  FRound(a.s * b.s, BMul(DropLimbs(a.m, za), DropLimbs(b.m, zb)),
                    a.e + b.e + LimbBits * (za + zb), FALSE)

\* <<q + r \div d, r % d>> by repeated subtraction
RECURSIVE DivFix(_, _, _)
DivFix(r, d, q) ==
    IF BCmp(r, d) >= 0 THEN DivFix(BSub(r, d), d, q + 1) ELSE <<q, r>>

\* <<r \div d, r % d>> for r < d * Base and d's top limb at least Base / 2:
\* the quotient limb is estimated from below by the top limbs, then fixed
DivEstimate(r, d, qhat) == DivFix(BSub(r, BNorm(BMulLimb(d, qhat, 1, 0))), d, qhat)

DivDigit(r, d) ==
    DivEstimate(r, d,
        (Limb(r, Len(d) + 1) * Base + Limb(r, Len(d))) \div (d[Len(d)] + 1))

\* long division of N by d, d's top limb at least Base / 2: the limbs
\* N[i], ..., N[1] are still to bring down, r is the remainder so far and q
\* the quotient limbs so far (leading zero limbs are not kept);
\* <<quotient, remainder>>
RECURSIVE BDivAt(_, _, _, _, _)
RECURSIVE BDivStep(_, _, _, _, _)
BDivStep(N, d, i, q, step) ==
    IF step[1] = 0 /\ q = << >> THEN BDivAt(N, d, i - 1, step[2], << >>)
    ELSE BDivAt(N, d, i - 1, step[2], <<step[1]>> \o q)

BDivAt(N, d, i, r, q) ==
    IF i = 0 THEN <<BNorm(q), r>>
    ELSE BDivStep(N, d, i, q, DivDigit(BNorm(<<N[i]>> \o r), d))

\* significands are widened to DivLimbs whole limbs before dividing
DivLimbs == (Prec + LimbBits - 1) \div LimbBits
DivShift == DivLimbs * LimbBits - Prec

\* the quotient qr[1] of the significands, rounded; a remainder qr[2] left
\* over is the sticky part
FQuotient(a, b, qr) ==
    FRound(a.s * b.s, qr[1], a.e - b.e - DivLimbs * LimbBits, qr[2] # << >>)

\* N \div d to DivLimbs limbs after the point, d being d0 without its z low
\* zero limbs (they are cancelled against the widening of a's significand
\* to N)
FDivide(a, b, N, d) == FQuotient(a, b, BDivAt(N, d, Len(N), << >>, << >>))

FDivBy(a, b, d0, z) ==
    FDivide(a, b, BShiftLimbs(BShl(a.m, DivShift), DivLimbs - z), DropLimbs(d0, z))

FDivNorm(a, b, d0) == FDivBy(a, b, d0, LowZeros(d0, 1))

\* a / b for b # 0 (Python raises ZeroDivisionError before dividing by zero)
float_truediv(a, b) ==
    IF IsNaN(a) \/ IsNaN(b) THEN NaN
    ELSE IF IsInf(a) THEN (IF IsInf(b) THEN NaN ELSE Inf(a.s * b.s))
    ELSE IF IsInf(b) THEN FZero
    ELSE IF a.s = 0 THEN FZero
    ELSE FDivNorm(a, b, BShl(b.m, DivShift))

\* -1, 0, 1 as a < b, a = b, a > b, for a and b that are not NaN
float_cmp(a, b) == float_sub(a, b).s

\* a <= b (False when either is NaN)
float_le(a, b) == ~IsNaN(a) /\ ~IsNaN(b) /\ float_cmp(a, b) <= 0

\* the quotient qr[1] of A * 2^k by B, rounded; a remainder qr[2] left over
\* is the sticky part
LongQuotient(s, k, qr) == FChecked(FRound(s, qr[1], -k, qr[2] # << >>))

\* A * 2^k \div B, both shifted by t bits to bring B's top limb to at
\* least Base / 2
LongDivide(s, A, B, k, t) ==
    LongQuotient(s, k, BDivAt(BShl(A, k + t), BShl(B, t), Len(BShl(A, k + t)),
                              << >>, << >>))

\* int / int for the ints of signs sa, sb and magnitudes A, B (limbs): the
\* exact quotient rounded once; A is scaled by 2^k so that the integer
\* quotient has more than Prec + 1 bits
long_true_divide(sa, A, sb, B) ==
    IF B = << >> THEN ZeroDivisionError
    ELSE IF A = << >> THEN FZero
    ELSE LongDivide(sa * sb, A, B,
                    Max(0, BBitLen(B) - BBitLen(A) + Prec + 2),
                    LimbBits - LimbLen(B[Len(B)]))

\* the integer nearest to N * 2^e, ties to even
BScaled(N, e) ==
    IF e >= 0 THEN BShl(N, e)
    ELSE FNearest(BShr(N, -e), BCmp(BLow(N, -e), BShl(BOne, -e - 1)), FALSE)

\* the integer nearest to |x| * 10, ties to even, as a limb sequence
Tenths(x) == BScaled(BNorm(BMulLimb(x.m, 10, 1, 0)), x.e)

\* round(x, 1) of a float x: the decimal with one digit after the point
\* nearest to x's exact value (ties to even), read back as a float; zero,
\* the infinities and NaN round to themselves
float_round1(x) ==
    IF x.m = << >> THEN x
    ELSE long_true_divide(x.s, Tenths(x), 1, BFromNat(10))

\* int / int (Python's true division of two ints, correctly rounded)
int_truediv(a, b) ==
    long_true_divide(Sign(a), BFromNat(Abs(a)), Sign(b), BFromNat(Abs(b)))

\* the float a decimal literal num/den denotes (0.7 is Literal(7, 10))
Literal(num, den) == int_truediv(num, den)

\* 0.3 mistyped as 0.2
F0_3_as_0_2 == Literal(2, 10)

\* the float literals of the two scripts
F0_7 == Literal(7, 10)
F0_3 == Literal(3, 10)
F0_8 == Literal(8, 10)
F0_2 == Literal(2, 10)
F0_85 == Literal(85, 100)
F0_15 == Literal(15, 100)
F1_02 == Literal(102, 100)

\* round(v, 1) of an int v is v
int_round1(v) == v

\* a script global that the run did not assign, a table the run did not draw
None == [none |-> TRUE]

(***************************************************************************)
(* streamlit_app3.py: design_mix and optimize_mix.                         *)
(***************************************************************************)

\* design_mix with the coarse aggregate falling by 30 kg per MPa
design_mix_coarse_30(strength_arg, slump_arg) ==
    LET cement     == 350 + (strength_arg - 20) * 5
        water      == float_add(float_of_int(180),
                          float_mul(int_truediv(slump_arg, 150), float_of_int(20)))
        fine_agg   == float_sub(float_of_int(700),
                          float_mul(int_truediv(slump_arg, 150), float_of_int(50)))
        coarse_agg == 1100 - (strength_arg - 20) * 30
    IN  IF Raised(int_truediv(slump_arg, 150)) THEN OverflowError
        ELSE IF Raised(float_of_int(cement)) THEN OverflowError
        ELSE IF cement = 0 THEN ZeroDivisionError
        ELSE [cement     |-> cement,
              water      |-> water,
              fine_agg   |-> fine_agg,
              coarse_agg |-> coarse_agg,
              w_c_ratio  |-> float_truediv(water, float_of_int(cement))]

\* design_mix with the water rising by 25 kg over the slump range
design_mix_water_25(strength_arg, slump_arg) ==
    LET cement     == 350 + (strength_arg - 20) * 5
        water      == float_add(float_of_int(180),
                          float_mul(int_truediv(slump_arg, 150), float_of_int(25)))
        fine_agg   == float_sub(float_of_int(700),
                          float_mul(int_truediv(slump_arg, 150), float_of_int(50)))
        coarse_agg == 1100 - (strength_arg - 20) * 10
    IN  IF Raised(int_truediv(slump_arg, 150)) THEN OverflowError
        ELSE IF Raised(float_of_int(cement)) THEN OverflowError
        ELSE IF cement = 0 THEN ZeroDivisionError
        ELSE [cement     |-> cement,
              water      |-> water,
              fine_agg   |-> fine_agg,
              coarse_agg |-> coarse_agg,
              w_c_ratio  |-> float_truediv(water, float_of_int(cement))]

\* design_mix with the cement rising by 10 kg per MPa
design_mix_cement_10(strength_arg, slump_arg) ==
    LET cement     == 350 + (strength_arg - 20) * 10
        water      == float_add(float_of_int(180),
                          float_mul(int_truediv(slump_arg, 150), float_of_int(20)))
        fine_agg   == float_sub(float_of_int(700),
                          float_mul(int_truediv(slump_arg, 150), float_of_int(50)))
        coarse_agg == 1100 - (strength_arg - 20) * 10
    IN  IF Raised(int_truediv(slump_arg, 150)) THEN OverflowError
        ELSE IF Raised(float_of_int(cement)) THEN OverflowError
        ELSE IF cement = 0 THEN ZeroDivisionError
        ELSE [cement     |-> cement,
              water      |-> water,
              fine_agg   |-> fine_agg,
              coarse_agg |-> coarse_agg,
              w_c_ratio  |-> float_truediv(water, float_of_int(cement))]

\* design_mix(strength, slump) for int arguments (the selectboxes give ints).
\* Two lines can raise: slump / 150 raises OverflowError when the quotient
\* is beyond binary64, and water / cement first converts the int cement to
\* float, raising OverflowError when it is beyond binary64, and then raises
\* ZeroDivisionError when it is zero.  The float products and sums between
\* them raise nothing (they give an infinity where they overflow).  The
\* arguments are integers of the model checker, below 2^31 in magnitude,
\* so the OverflowError outcomes are written down as the code has them but
\* no call drawn here can reach them: the calls drawn here show that none
\* up to LargeInput does.
design_mix(strength_arg, slump_arg) ==
    LET cement     == 350 + (strength_arg - 20) * 5
        water      == float_add(float_of_int(180),
                          float_mul(int_truediv(slump_arg, 150), float_of_int(20)))
        fine_agg   == float_sub(float_of_int(700),
                          float_mul(int_truediv(slump_arg, 150), float_of_int(50)))
        coarse_agg == 1100 - (strength_arg - 20) * 10
    IN  IF Raised(int_truediv(slump_arg, 150)) THEN OverflowError
        ELSE IF Raised(float_of_int(cement)) THEN OverflowError
        ELSE IF cement = 0 THEN ZeroDivisionError
        ELSE [cement     |-> cement,
              water      |-> water,
              fine_agg   |-> fine_agg,
              coarse_agg |-> coarse_agg,
              w_c_ratio  |-> float_truediv(water, float_of_int(cement))]

\* uniform with the sample scaled twice
uniform_doubled(low, high, sample) ==
    float_add(float_of_int(low),
              float_mul(float_mul(float_of_int(high - low), sample), float_of_int(2)))

\* np.random.uniform(low, high) for int bounds: low + (high - low) * sample,
\* where sample is the generator's next double in [0, 1)
uniform(low, high, sample) ==
    float_add(float_of_int(low), float_mul(float_of_int(high - low), sample))

\* optimize_mix dividing the water by the retained cement alone
optimize_mix_cement_only(base_mix_arg, strength_arg, slump_arg, sample1, sample2) ==
    LET cement          == float_mul(float_of_int(base_mix_arg.cement), F0_7)
        scms            == float_mul(float_of_int(base_mix_arg.cement), F0_3)
        coarse_nat      == float_mul(float_of_int(base_mix_arg.coarse_agg), F0_8)
        coarse_recycled == float_mul(float_of_int(base_mix_arg.coarse_agg), F0_2)
        fine_nat        == float_mul(base_mix_arg.fine_agg, F0_85)
        fine_recycled   == float_mul(base_mix_arg.fine_agg, F0_15)
        water           == float_mul(base_mix_arg.water, F1_02)
        new_strength    == float_sub(float_of_int(strength_arg), uniform(0, 2, sample1))
        new_slump       == float_add(float_of_int(slump_arg), uniform(-10, 10, sample2))
        co2_reduction   == 25
        cost_reduction  == 15
        total           == float_add(cement, scms)
    IN  IF Raised(float_of_int(base_mix_arg.cement)) THEN OverflowError
        ELSE IF Raised(float_of_int(base_mix_arg.coarse_agg)) THEN OverflowError
        ELSE IF Raised(float_of_int(strength_arg)) THEN OverflowError
        ELSE IF Raised(float_of_int(slump_arg)) THEN OverflowError
        ELSE IF cement = FZero THEN ZeroDivisionError
        ELSE [cement          |-> cement,
              scms            |-> scms,
              water           |-> water,
              fine_nat        |-> fine_nat,
              fine_recycled   |-> fine_recycled,
              coarse_nat      |-> coarse_nat,
              coarse_recycled |-> coarse_recycled,
              w_c_ratio       |-> float_truediv(water, cement),
              new_strength    |-> new_strength,
              new_slump       |-> new_slump,
              co2_reduction   |-> co2_reduction,
              cost_reduction  |-> cost_reduction]

\* optimize_mix with the water adjustment following the slump sample
optimize_mix_sampled_water(base_mix_arg, strength_arg, slump_arg, sample1, sample2) ==
    LET cement          == float_mul(float_of_int(base_mix_arg.cement), F0_7)
        scms            == float_mul(float_of_int(base_mix_arg.cement), F0_3)
        coarse_nat      == float_mul(float_of_int(base_mix_arg.coarse_agg), F0_8)
        coarse_recycled == float_mul(float_of_int(base_mix_arg.coarse_agg), F0_2)
        fine_nat        == float_mul(base_mix_arg.fine_agg, F0_85)
        fine_recycled   == float_mul(base_mix_arg.fine_agg, F0_15)
        water           == float_mul(base_mix_arg.water,
                               float_add(F1_02, float_mul(sample2, F0_2)))
        new_strength    == float_sub(float_of_int(strength_arg), uniform(0, 2, sample1))
        new_slump       == float_add(float_of_int(slump_arg), uniform(-10, 10, sample2))
        co2_reduction   == 25
        cost_reduction  == 15
        total           == float_add(cement, scms)
    IN  IF Raised(float_of_int(base_mix_arg.cement)) THEN OverflowError
        ELSE IF Raised(float_of_int(base_mix_arg.coarse_agg)) THEN OverflowError
        ELSE IF Raised(float_of_int(strength_arg)) THEN OverflowError
        ELSE IF Raised(float_of_int(slump_arg)) THEN OverflowError
        ELSE IF total = FZero THEN ZeroDivisionError
        ELSE [cement          |-> cement,
              scms            |-> scms,
              water           |-> water,
              fine_nat        |-> fine_nat,
              fine_recycled   |-> fine_recycled,
              coarse_nat      |-> coarse_nat,
              coarse_recycled |-> coarse_recycled,
              w_c_ratio       |-> float_truediv(water, total),
              new_strength    |-> new_strength,
              new_slump       |-> new_slump,
              co2_reduction   |-> co2_reduction,
              cost_reduction  |-> cost_reduction]

\* optimize_mix(base_mix, strength, slump) on a mix design_mix returned;
\* sample1 and sample2 are the two doubles the generator yields in the call.
\* An int too large for a float raises OverflowError where it meets a float
\* (the cement, the coarse aggregate, the strength, the slump, in that
\* order), and water / (cement + scms) raises ZeroDivisionError on a zero
\* divisor.
optimize_mix(base_mix_arg, strength_arg, slump_arg, sample1, sample2) ==
    LET cement          == float_mul(float_of_int(base_mix_arg.cement), F0_7)
        scms            == float_mul(float_of_int(base_mix_arg.cement), F0_3)
        coarse_nat      == float_mul(float_of_int(base_mix_arg.coarse_agg), F0_8)
        coarse_recycled == float_mul(float_of_int(base_mix_arg.coarse_agg), F0_2)
        fine_nat        == float_mul(base_mix_arg.fine_agg, F0_85)
        fine_recycled   == float_mul(base_mix_arg.fine_agg, F0_15)
        water           == float_mul(base_mix_arg.water, F1_02)
        new_strength    == float_sub(float_of_int(strength_arg), uniform(0, 2, sample1))
        new_slump       == float_add(float_of_int(slump_arg), uniform(-10, 10, sample2))
        co2_reduction   == 25
        cost_reduction  == 15
        total           == float_add(cement, scms)
    IN  IF Raised(float_of_int(base_mix_arg.cement)) THEN OverflowError
        ELSE IF Raised(float_of_int(base_mix_arg.coarse_agg)) THEN OverflowError
        ELSE IF Raised(float_of_int(strength_arg)) THEN OverflowError
        ELSE IF Raised(float_of_int(slump_arg)) THEN OverflowError
        ELSE IF total = FZero THEN ZeroDivisionError
        ELSE [cement          |-> cement,
              scms            |-> scms,
              water           |-> water,
              fine_nat        |-> fine_nat,
              fine_recycled   |-> fine_recycled,
              coarse_nat      |-> coarse_nat,
              coarse_recycled |-> coarse_recycled,
              w_c_ratio       |-> float_truediv(water, total),
              new_strength    |-> new_strength,
              new_slump       |-> new_slump,
              co2_reduction   |-> co2_reduction,
              cost_reduction  |-> cost_reduction]

\* results = {k: round(v, 1) for k, v in base_mix.items()}
round_base(mix) ==
    [cement     |-> int_round1(mix.cement),
     water      |-> float_round1(mix.water),
     fine_agg   |-> float_round1(mix.fine_agg),
     coarse_agg |-> int_round1(mix.coarse_agg),
     w_c_ratio  |-> float_round1(mix.w_c_ratio)]

\* opt_results = {k: round(v, 1) if isinstance(v, (int, float)) else v ...}
round_optimized(mix) ==
    [cement          |-> float_round1(mix.cement),
     scms            |-> float_round1(mix.scms),
     water           |-> float_round1(mix.water),
     fine_nat        |-> float_round1(mix.fine_nat),
     fine_recycled   |-> float_round1(mix.fine_recycled),
     coarse_nat      |-> float_round1(mix.coarse_nat),
     coarse_recycled |-> float_round1(mix.coarse_recycled),
     w_c_ratio       |-> float_round1(mix.w_c_ratio),
     new_strength    |-> float_round1(mix.new_strength),
     new_slump       |-> float_round1(mix.new_slump),
     co2_reduction   |-> int_round1(mix.co2_reduction),
     cost_reduction  |-> int_round1(mix.cost_reduction)]

\* the selectboxes' options: list(range(20, 65, 5)) and list(range(25, 155, 5))
StrengthOptions == {20 + 5 * i : i \in 0..8}
SlumpOptions == {25 + 5 * i : i \in 0..25}

\* the doubles in [0, 1) the random generator is taken to yield: the
\* multiples of 1/SampleSteps, and the largest double below 1
SampleSteps == 2
LargestSample == FRound(1, BSub(BShl(BOne, Prec), BOne), -Prec, FALSE)
Samples ==
    {int_truediv(k, SampleSteps) : k \in 0..(SampleSteps - 1)} \cup {LargestSample}

(***************************************************************************)
(* The two functions are deterministic in their arguments and the samples, *)
(* so what a script run computes is tabulated once per input instead of    *)
(* once per transition: RunBase[s, l] is base_mix and results of a run     *)
(* with the selectboxes at s and l, RunOptimized[s, l, a, b] is optimized  *)
(* and opt_results of a run in which the button was clicked and the        *)
(* generator yielded a and b.                                              *)
(***************************************************************************)
BaseRun(mix) == [base_mix |-> mix, results |-> round_base(mix)]

RunBase ==
    [s \in StrengthOptions, l \in SlumpOptions |->
        BaseRun(design_mix(s, l))] @@ << >>

OptimizedRun(mix) == [optimized |-> mix, opt_results |-> round_optimized(mix)]

RunOptimized ==
    [s \in StrengthOptions, l \in SlumpOptions, a \in Samples, b \in Samples |->
        OptimizedRun(optimize_mix(RunBase[s, l].base_mix, s, l, a, b))] @@ << >>

\* the globals a run leaves behind: the base mix and its table, and the
\* optimized mix and its table when the button's branch was taken
Assign(base, clicked, opt) ==
    /\ base_mix' = base.base_mix
    /\ results' = base.results
    /\ optimized' = IF clicked THEN opt.optimized ELSE None
    /\ opt_results' = IF clicked THEN opt.opt_results ELSE None

\* a run that leaves the optimized table of an earlier run on the page
ScriptRun_keeps_optimized(s, l, clicked, sample1, sample2) ==
    /\ strength' = s
    /\ slump' = l
    /\ button' = clicked
    /\ base_mix' = RunBase[s, l].base_mix
    /\ results' = RunBase[s, l].results
    /\ IF clicked
       THEN /\ optimized' = RunOptimized[s, l, sample1, sample2].optimized
            /\ opt_results' = RunOptimized[s, l, sample1, sample2].opt_results
       ELSE /\ optimized' = optimized
            /\ opt_results' = opt_results

\* one run of the script, top to bottom, with the selectboxes at s and l and
\* st.button returning clicked
ScriptRun(s, l, clicked, sample1, sample2) ==
    /\ strength' = s
    /\ slump' = l
    /\ button' = clicked
    /\ Assign(RunBase[s, l], clicked, RunOptimized[s, l, sample1, sample2])

\* the first run of a session: each selectbox holds its first option
Init3 ==
    /\ strength = 20
    /\ slump = 25
    /\ button = FALSE
    /\ base_mix = design_mix(strength, slump)
    /\ results = round_base(base_mix)
    /\ optimized = None
    /\ opt_results = None

\* the user picks another strength: the script reruns, the button not clicked
SelectStrength ==
    /\ \E s \in StrengthOptions \ {strength} :
           ScriptRun(s, slump, FALSE, FZero, FZero)
    /\ UNCHANGED <<vars1, varsCall>>

SelectSlump ==
    /\ \E l \in SlumpOptions \ {slump} :
           ScriptRun(strength, l, FALSE, FZero, FZero)
    /\ UNCHANGED <<vars1, varsCall>>

\* the user clicks the optimization button: the script reruns, st.button
\* returns True in this run only
ClickOptimize ==
    /\ \E sample1 \in Samples, sample2 \in Samples :
           ScriptRun(strength, slump, TRUE, sample1, sample2)
    /\ UNCHANGED <<vars1, varsCall>>

Idle3 ==
    /\ strength = 0 /\ slump = 0 /\ button = FALSE
    /\ base_mix = None /\ results = None /\ optimized = None /\ opt_results = None

Idle1 ==
    /\ fc = 0 /\ w_c_ratio = None /\ fine_ratio = None
    /\ cement_content = 0 /\ water_content = None
    /\ fine_agg_mass = None /\ coarse_agg_mass = None /\ message = None

IdleCall ==
    /\ call_strength = 0 /\ call_slump = 0 /\ call_pc = "idle" /\ call_result = None

(***************************************************************************)
(* streamlit_app.py: the volumetric calculator.                            *)
(***************************************************************************)
SG_cement == Literal(315, 100)
SG_fine == Literal(265, 100)
SG_coarse == Literal(270, 100)
SG_water == Literal(100, 100)

FOne == float_of_int(1)
FThousand == float_of_int(1000)

\* f"{x:.1f}" of a float: the decimal with one digit after the point nearest
\* to x's exact value, ties to even; kept as its number of tenths
format1(x) == x.s * BToNat(Tenths(x))

\* f"{n:.1f}" of an int
int_format1(n) == 10 * n

\* the script with the water's volume left out of the balance
compute_mix_no_water(wc, fr) ==
    LET cement        == 400
        water         == float_mul(float_of_int(cement), wc)
        volume_cement == float_truediv(float_of_int(cement),
                                       float_mul(SG_cement, FThousand))
        volume_water  == float_truediv(water, float_mul(SG_water, FThousand))
        volume_agg    == float_sub(FOne, volume_cement)
        coarse_ratio  == float_sub(FOne, fr)
        fine_mass     == float_mul(float_mul(float_mul(volume_agg, fr),
                                             SG_fine), FThousand)
        coarse_mass   == float_mul(float_mul(float_mul(volume_agg, coarse_ratio),
                                             SG_coarse), FThousand)
    IN  [cement_content  |-> cement,
         water_content   |-> water,
         fine_agg_mass   |-> fine_mass,
         coarse_agg_mass |-> coarse_mass,
         message         |-> [cement |-> int_format1(cement),
                              water  |-> format1(water),
                              fine   |-> format1(fine_mass),
                              coarse |-> format1(coarse_mass)]]

\* lines 23 to 41 of the script for the widget values wc and fr (the value
\* of the strength widget is read into fc and not used)
compute_mix(wc, fr) ==
    LET cement        == 400
        water         == float_mul(float_of_int(cement), wc)
        volume_cement == float_truediv(float_of_int(cement),
                                       float_mul(SG_cement, FThousand))
        volume_water  == float_truediv(water, float_mul(SG_water, FThousand))
        volume_agg    == float_sub(FOne, float_add(volume_cement, volume_water))
        coarse_ratio  == float_sub(FOne, fr)
        fine_mass     == float_mul(float_mul(float_mul(volume_agg, fr),
                                             SG_fine), FThousand)
        coarse_mass   == float_mul(float_mul(float_mul(volume_agg, coarse_ratio),
                                             SG_coarse), FThousand)
    IN  [cement_content  |-> cement,
         water_content   |-> water,
         fine_agg_mass   |-> fine_mass,
         coarse_agg_mass |-> coarse_mass,
         message         |-> [cement |-> int_format1(cement),
                              water  |-> format1(water),
                              fine   |-> format1(fine_mass),
                              coarse |-> format1(coarse_mass)]]

\* the values the widgets give: st.number_input(value=30) an int near its
\* default, the ratio widgets the hundredths of their ranges [0.3, 0.7] and
\* [0.3, 0.6] (their step is 0.01), each the float nearest to the decimal
FcDefault == 30
FcSpan == 1
FcValues == (FcDefault - FcSpan)..(FcDefault + FcSpan)
WcHundredths == 30..70
FineHundredths == 30..60
Hundredths == [k \in WcHundredths \cup FineHundredths |-> Literal(k, 100)] @@ << >>
WcValues == {Hundredths[k] : k \in WcHundredths}
FineValues == {Hundredths[k] : k \in FineHundredths}

\* what a run of the script computes, tabulated once per pair of ratios
RunVolumetric ==
    [wc \in WcValues, fr \in FineValues |-> compute_mix(wc, fr)] @@ << >>

\* the globals a run leaves behind
Assign1(run) ==
    /\ cement_content' = run.cement_content
    /\ water_content' = run.water_content
    /\ fine_agg_mass' = run.fine_agg_mass
    /\ coarse_agg_mass' = run.coarse_agg_mass
    /\ message' = run.message

\* a run whose cement content follows the strength entered
ScriptRun1_cement_from_strength(f, wc, fr) ==
    /\ fc' = f
    /\ w_c_ratio' = wc
    /\ fine_ratio' = fr
    /\ cement_content' = 350 + (f - 20) * 5
    /\ water_content' = float_mul(float_of_int(cement_content'), wc)
    /\ fine_agg_mass' = RunVolumetric[wc, fr].fine_agg_mass
    /\ coarse_agg_mass' = RunVolumetric[wc, fr].coarse_agg_mass
    /\ message' = RunVolumetric[wc, fr].message

\* one run of the script with the widgets at f, wc and fr
ScriptRun1(f, wc, fr) ==
    /\ fc' = f
    /\ w_c_ratio' = wc
    /\ fine_ratio' = fr
    /\ Assign1(RunVolumetric[wc, fr])

\* the globals are those of the run
Shown1(run) ==
    /\ cement_content = run.cement_content
    /\ water_content = run.water_content
    /\ fine_agg_mass = run.fine_agg_mass
    /\ coarse_agg_mass = run.coarse_agg_mass
    /\ message = run.message

\* the first run of a session: the widgets hold their defaults 30, 0.5, 0.4
Init1 ==
    /\ fc = FcDefault
    /\ w_c_ratio = Hundredths[50]
    /\ fine_ratio = Hundredths[40]
    /\ Shown1(RunVolumetric[w_c_ratio, fine_ratio])

\* the user enters another strength: the script reruns
EnterStrength ==
    /\ \E f \in FcValues \ {fc} : ScriptRun1(f, w_c_ratio, fine_ratio)
    /\ UNCHANGED <<vars3, varsCall>>

\* the user moves a ratio widget one step of 0.01 up or down within its
\* range (the number input's + and - buttons, the slider's arrow keys): the
\* script reruns
StepWaterCementRatio ==
    /\ \E k \in WcHundredths, d \in {-1, 1} :
           /\ Hundredths[k] = w_c_ratio
           /\ k + d \in WcHundredths
           /\ ScriptRun1(fc, Hundredths[k + d], fine_ratio)
    /\ UNCHANGED <<vars3, varsCall>>

StepFineRatio ==
    /\ \E k \in FineHundredths, d \in {-1, 1} :
           /\ Hundredths[k] = fine_ratio
           /\ k + d \in FineHundredths
           /\ ScriptRun1(fc, w_c_ratio, Hundredths[k + d])
    /\ UNCHANGED <<vars3, varsCall>>

(***************************************************************************)
(* design_mix called on int arguments beyond the selectboxes' options:     *)
(* every strength from -StrengthSpan to StrengthSpan, every slump a        *)
(* selectbox offers, the multiples of 25 from -25 * SlumpSpan to           *)
(* 25 * SlumpSpan, and both arguments at -LargeInput and LargeInput.       *)
(***************************************************************************)
StrengthSpan == 60
SlumpSpan == 3
LargeInput == 1000000
CallStrengths == ((-StrengthSpan)..StrengthSpan) \cup {-LargeInput, LargeInput}
CallSlumps ==
    {25 * j : j \in (-SlumpSpan)..SlumpSpan} \cup SlumpOptions
        \cup {-LargeInput, LargeInput}

CallDesignMix ==
    [s \in CallStrengths, l \in CallSlumps |-> design_mix(s, l)] @@ << >>

InitCall ==
    /\ call_strength \in CallStrengths
    /\ call_slump \in CallSlumps
    /\ call_pc = "called"
    /\ call_result = None

\* the call ends with outcome, by an exception or not
Ends(outcome, exception, pc) ==
    /\ Raised(outcome) = exception
    /\ call_pc' = pc
    /\ call_result' = outcome

\* the call returns its mapping
DesignMixReturns ==
    /\ call_pc = "called"
    /\ Ends(CallDesignMix[call_strength, call_slump], FALSE, "returned")
    /\ UNCHANGED <<call_strength, call_slump, vars3, vars1>>

\* the call ends in an exception
DesignMixRaises ==
    /\ call_pc = "called"
    /\ Ends(CallDesignMix[call_strength, call_slump], TRUE, "raised")
    /\ UNCHANGED <<call_strength, call_slump, vars3, vars1>>

Init == Init3 /\ Idle1 /\ IdleCall

Next == SelectStrength \/ SelectSlump \/ ClickOptimize

Spec == Init /\ [][Next]_vars

\* the volumetric calculator
InitVol == Idle3 /\ Init1 /\ IdleCall

NextVol == EnterStrength \/ StepWaterCementRatio \/ StepFineRatio

SpecVol == InitVol /\ [][NextVol]_vars

\* design_mix as a function
InitFn == Idle3 /\ Idle1 /\ InitCall

NextFn == DesignMixReturns \/ DesignMixRaises

SpecFn == InitFn /\ [][NextFn]_vars

(***************************************************************************)
(* Properties.  The comparisons are made with constants written out here,  *)
(* not with the definitions the calculators use.                           *)
(***************************************************************************)
float_abs(x) == [x EXCEPT !.s = Abs(x.s)]

\* |x - y| <= eps * |y|
RelClose(x, y, eps) ==
    float_le(float_abs(float_sub(x, y)), float_mul(eps, float_abs(y)))

\* |x - y| <= eps
AbsClose(x, y, eps) == float_le(float_abs(float_sub(x, y)), eps)

Percent70 == Literal(70, 100)
Percent30 == Literal(30, 100)
Percent80 == Literal(80, 100)
Percent20 == Literal(20, 100)
Percent85 == Literal(85, 100)
Percent15 == Literal(15, 100)
Percent102 == Literal(102, 100)

\* densities in kg/m3: 3.15 * 1000, 1.00 * 1000, 2.65 * 1000, 2.70 * 1000
DensityCement == float_mul(Literal(315, 100), float_of_int(1000))
DensityWater == float_mul(Literal(100, 100), float_of_int(1000))
DensityFine == float_mul(Literal(265, 100), float_of_int(1000))
DensityCoarse == float_mul(Literal(270, 100), float_of_int(1000))

\* 1e-9 m3, and 2^-50
VolumeTolerance == Literal(1, 1000000000)
RoundingTolerance == FRound(1, BOne, -50, FALSE)

\* the absolute volumes of the four masses of the current run, summed
AbsoluteVolumes ==
    float_add(
        float_add(
            float_add(float_truediv(float_of_int(cement_content), DensityCement),
                      float_truediv(water_content, DensityWater)),
            float_truediv(fine_agg_mass, DensityFine)),
        float_truediv(coarse_agg_mass, DensityCoarse))

\* C1: in the volumetric calculator, for every water-cement ratio in
\* [0.3, 0.7] and fine fraction in [0.3, 0.6], the cement, water, fine and
\* coarse masses are non-negative and their absolute volumes sum to 1 m3
\* (to within 1e-9, the sum being a float)
C1_VolumesSumToUnit ==
    /\ cement_content >= 0
    /\ float_le(FZero, water_content)
    /\ float_le(FZero, fine_agg_mass)
    /\ float_le(FZero, coarse_agg_mass)
    /\ AbsClose(AbsoluteVolumes, float_of_int(1), VolumeTolerance)

\* both ratios at their minimum 0.3: 598.6 kg fine, 1423.2 kg coarse, and a
\* sum of volumes that is one rounding away from 1
C1_Witness ==
    /\ w_c_ratio = Literal(3, 10)
    /\ fine_ratio = Literal(3, 10)
    /\ message.fine = 5986
    /\ message.coarse = 14232
    /\ AbsoluteVolumes # float_of_int(1)

\* C2 as stated: no call of design_mix on finite numbers ends in an error
C2_NeverRaises == call_pc # "raised"

\* C2: for int strength and slump of magnitude up to LargeInput, which
\* includes every strength and slump the selectboxes offer, design_mix
\* returns its mapping of cement, water, fine aggregate, coarse aggregate
\* and w/c ratio whenever the cement 350 + (strength - 20) * 5 is not zero,
\* and ends in an error exactly when it is zero (strength -50): the error
\* is ZeroDivisionError, never OverflowError; a call with selectable
\* arguments always returns
C2_RaisesOnlyOnZeroCement ==
    /\ call_strength \in (-LargeInput)..LargeInput
    /\ call_slump \in (-LargeInput)..LargeInput
    /\ call_pc # "called" =>
        /\ (call_pc = "raised") <=> (350 + (call_strength - 20) * 5 = 0)
        /\ (call_pc = "raised") <=> (call_strength = -50)
        /\ call_pc = "raised" => call_result = ZeroDivisionError
        /\ call_result # OverflowError
        /\ call_pc = "returned" =>
               DOMAIN call_result =
                   {"cement", "water", "fine_agg", "coarse_agg", "w_c_ratio"}
        /\ (call_strength \in StrengthOptions /\ call_slump \in SlumpOptions)
               => call_pc = "returned"

\* a call at the largest magnitudes that returns: strength -LargeInput and
\* slump LargeInput give a cement of 350 + (-1000000 - 20) * 5 = -4999750
C2_Witness ==
    /\ call_pc = "returned"
    /\ call_strength = -LargeInput
    /\ call_slump = LargeInput
    /\ call_result.cement = 350 + (-LargeInput - 20) * 5
    /\ call_result.cement < 0

\* C3: whatever the base mix, the selections and the random draws,
\* optimize_mix returns an estimated strength in [strength - 2, strength] and
\* an estimated slump in [slump - 10, slump + 10]; [28, 30] and [65, 85] for
\* strength 30 and slump 75
C3_EstimatesInRange ==
    button =>
        /\ float_le(float_of_int(strength - 2), optimized.new_strength)
        /\ float_le(optimized.new_strength, float_of_int(strength))
        /\ float_le(float_of_int(slump - 10), optimized.new_slump)
        /\ float_le(optimized.new_slump, float_of_int(slump + 10))
        /\ (strength = 30 /\ slump = 75) =>
               /\ float_le(float_of_int(28), optimized.new_strength)
               /\ float_le(optimized.new_strength, float_of_int(30))
               /\ float_le(float_of_int(65), optimized.new_slump)
               /\ float_le(optimized.new_slump, float_of_int(85))

\* the largest draws at 30 MPa and 75 mm: the estimates round onto the ends
\* 28 and 85 of their intervals
C3_Witness ==
    /\ button
    /\ strength = 30
    /\ slump = 75
    /\ optimized.new_strength = float_of_int(28)
    /\ optimized.new_slump = float_of_int(85)

\* C4: for every selectable strength (20, 25, ..., 60) and slump (25, 30,
\* ..., 150), corners included, design_mix returns non-negative cement,
\* water, fine-aggregate and coarse-aggregate masses
C4_SelectableMassesNonNegative ==
    /\ strength \in {20 + 5 * i : i \in 0..8}
    /\ slump \in {25 + 5 * i : i \in 0..25}
    /\ base_mix.cement >= 0
    /\ float_le(FZero, base_mix.water)
    /\ float_le(FZero, base_mix.fine_agg)
    /\ base_mix.coarse_agg >= 0

\* the corner (60, 150): 550 kg cement, 200 kg water, 650 fine, 700 coarse
C4_Witness ==
    /\ strength = 60
    /\ slump = 150
    /\ base_mix.cement = 550
    /\ base_mix.water = float_of_int(200)
    /\ base_mix.fine_agg = float_of_int(650)
    /\ base_mix.coarse_agg = 700

\* C5: design_mix returns cement = 350 + (strength - 20) * 5, water =
\* 180 + (slump / 150) * 20, fine = 700 - (slump / 150) * 50, coarse =
\* 1100 - (strength - 20) * 10 and w/c = water / cement; for strength 30
\* and slump 75 that is 400, 190, 675, 1000 and 0.475
C5_DesignMixFormulas ==
    call_pc = "returned" =>
        /\ call_result.cement = 350 + (call_strength - 20) * 5
        /\ call_result.water =
               float_add(float_of_int(180),
                   float_mul(int_truediv(call_slump, 150), float_of_int(20)))
        /\ call_result.fine_agg =
               float_sub(float_of_int(700),
                   float_mul(int_truediv(call_slump, 150), float_of_int(50)))
        /\ call_result.coarse_agg = 1100 - (call_strength - 20) * 10
        /\ call_result.w_c_ratio =
               float_truediv(call_result.water, float_of_int(call_result.cement))
        /\ (call_strength = 30 /\ call_slump = 75) =>
               /\ call_result.cement = 400
               /\ call_result.water = float_of_int(190)
               /\ call_result.fine_agg = float_of_int(675)
               /\ call_result.coarse_agg = 1000
               /\ call_result.w_c_ratio = Literal(475, 1000)

\* the call design_mix(30, 75) has returned, with w/c 0.475
C5_Witness ==
    /\ call_pc = "returned"
    /\ call_strength = 30
    /\ call_slump = 75
    /\ call_result.w_c_ratio = Literal(475, 1000)

\* C6: optimize_mix returns 70% and 30% of the base cement as cement and
\* SCM, 80% and 20% of the base coarse aggregate as natural and recycled
\* coarse, 85% and 15% of the base fine aggregate as natural and recycled
\* fine, and 102% of the base water; on the base mix of 30 MPa and 75 mm
\* that is 280, 120, 800, 200, 573.75, 101.25 and 193.8
C6_ReplacementFractions ==
    button =>
        /\ optimized.cement = float_mul(float_of_int(base_mix.cement), Percent70)
        /\ optimized.scms = float_mul(float_of_int(base_mix.cement), Percent30)
        /\ optimized.coarse_nat =
               float_mul(float_of_int(base_mix.coarse_agg), Percent80)
        /\ optimized.coarse_recycled =
               float_mul(float_of_int(base_mix.coarse_agg), Percent20)
        /\ optimized.fine_nat = float_mul(base_mix.fine_agg, Percent85)
        /\ optimized.fine_recycled = float_mul(base_mix.fine_agg, Percent15)
        /\ optimized.water = float_mul(base_mix.water, Percent102)
        /\ (strength = 30 /\ slump = 75) =>
               /\ optimized.cement = float_of_int(280)
               /\ optimized.scms = float_of_int(120)
               /\ optimized.coarse_nat = float_of_int(800)
               /\ optimized.coarse_recycled = float_of_int(200)
               /\ optimized.fine_nat = Literal(57375, 100)
               /\ optimized.fine_recycled = Literal(10125, 100)
               /\ optimized.water = Literal(1938, 10)

\* the optimized mix of 30 MPa and 75 mm is on the page: 120 kg SCM and
\* 573.75 kg natural fine aggregate
C6_Witness ==
    /\ button
    /\ strength = 30
    /\ slump = 75
    /\ base_mix.cement = 400
    /\ optimized.scms = float_of_int(120)
    /\ optimized.fine_nat = Literal(57375, 100)

\* the fields of an optimized mix other than the two estimates
NonRandom(mix) ==
    [k \in DOMAIN mix \ {"new_strength", "new_slump"} |-> mix[k]]

\* C7: two calls of design_mix with the same strength and slump return the
\* same mapping, and two calls of optimize_mix on the same base mix,
\* strength and slump differ at most in the estimated strength and slump:
\* the masses, the w/c ratio, the 25% CO2 and the 15% cost reduction agree
C7_OnlyEstimatesVary ==
    /\ [](button => /\ optimized.co2_reduction = 25
                    /\ optimized.cost_reduction = 15)
    /\ [][(strength' = strength /\ slump' = slump) =>
              /\ base_mix' = base_mix
              /\ results' = results
              /\ (button /\ button') =>
                     NonRandom(optimized') = NonRandom(optimized)]_vars

\* an optimized mix of 20 MPa and 25 mm whose estimates moved with the
\* draws: 19 MPa and 35 mm
C7_Witness ==
    /\ button
    /\ strength = 20
    /\ slump = 25
    /\ optimized.new_strength = float_of_int(19)
    /\ optimized.new_slump = float_of_int(35)
    /\ optimized.co2_reduction = 25
    /\ optimized.cost_reduction = 15

\* C8: the volumetric calculator's cement is 400 kg and its water
\* 400 * w/c whatever strength is entered; runs that differ only in the
\* strength give the same four masses; at w/c 0.5 the water is exactly 200
C8_CementFixedAt400 ==
    /\ [](/\ cement_content = 400
          /\ water_content = float_mul(float_of_int(400), w_c_ratio)
          /\ w_c_ratio = Literal(5, 10) => water_content = float_of_int(200))
    /\ [][(w_c_ratio' = w_c_ratio /\ fine_ratio' = fine_ratio) =>
              /\ cement_content' = cement_content
              /\ water_content' = water_content
              /\ fine_agg_mass' = fine_agg_mass
              /\ coarse_agg_mass' = coarse_agg_mass]_vars

\* another strength than the default entered at w/c 0.5: 400 kg cement and
\* 200 kg water
C8_Witness ==
    /\ fc # 30
    /\ w_c_ratio = Literal(5, 10)
    /\ cement_content = 400
    /\ water_content = float_of_int(200)
    /\ message.water = 2000

\* C9 as stated: the optimized w/c ratio is 1.02 times the base w/c ratio
C9_ExactlyScaled ==
    button =>
        optimized.w_c_ratio = float_mul(Percent102, base_mix.w_c_ratio)

\* C9: the optimized w/c ratio is the adjusted water over retained cement
\* plus SCM, which add up to the base cement; it equals 1.02 times the
\* base w/c ratio up to floating-point rounding (relative difference at
\* most 2^-50), and for 30 MPa and 75 mm it is 0.48450000000000004, within
\* that rounding of 0.4845
C9_ScaledUpToRounding ==
    button =>
        /\ optimized.w_c_ratio =
               float_truediv(optimized.water,
                             float_add(optimized.cement, optimized.scms))
        /\ float_add(optimized.cement, optimized.scms) =
               float_of_int(base_mix.cement)
        /\ RelClose(optimized.w_c_ratio,
                    float_mul(Percent102, base_mix.w_c_ratio), RoundingTolerance)
        /\ (strength = 30 /\ slump = 75) =>
               /\ optimized.w_c_ratio # Literal(4845, 10000)
               /\ RelClose(optimized.w_c_ratio, Literal(4845, 10000),
                           RoundingTolerance)

\* an optimized mix whose w/c ratio is not the float 1.02 * base w/c
C9_Witness ==
    /\ button
    /\ strength = 30
    /\ slump = 75
    /\ optimized.w_c_ratio # Literal(4845, 10000)
    /\ float_mul(Percent102, base_mix.w_c_ratio) = Literal(4845, 10000)

\* C10: every run shows the base mix of the current selections; an
\* optimized mix is shown only in a run a click triggered and is then the
\* one derived from that run's base mix and selections, never one computed
\* for earlier selections
C10_OptimizedOnlyForCurrentRun ==
    /\ base_mix = design_mix(strength, slump)
    /\ results = round_base(base_mix)
    /\ button <=> optimized # None
    /\ button <=> opt_results # None
    /\ button =>
           /\ \E a \in Samples, b \in Samples :
                  optimized = RunOptimized[strength, slump, a, b].optimized
           /\ opt_results = round_optimized(optimized)
           /\ NonRandom(optimized) =
                  NonRandom(optimize_mix(base_mix, strength, slump, FZero, FZero))

\* a run without a click after the selections were moved to 60 MPa and
\* 150 mm: the base mix of 60 and 150, and no optimized table
C10_Witness ==
    /\ ~button
    /\ strength = 60
    /\ slump = 150
    /\ results.cement = 550
    /\ optimized = None
    /\ opt_results = None

====
